---- MODULE Spec2Model ----
(***************************************************************************)
(* IntWeightedMultiCategoryEmbedding                                       *)
(* (pytext/models/embeddings/int_weighted_multi_category_embedding.py).    *)
(*                                                                         *)
(* The constructor resolves the per-feature EmbeddingBag modes, builds one *)
(* EmbeddingBag per key of feature_buckets and the MLP; get_output_dim     *)
(* reports the output width; forward embeds a batch.                       *)
(*                                                                         *)
(* Representation.  A Python dict is a sequence of [k, v] pairs in         *)
(* insertion order.  A dict key is a record [form, id]: form "int" is the  *)
(* integer id, form "str" is its decimal string; int() and str() convert   *)
(* between the two forms, and a lookup matches a key of the same form      *)
(* only.  None is the string "None"; the Optional[bool] ignore_weight is   *)
(* one of "None", "True", "False".  Tensors are integer matrices (a        *)
(* sequence of rows); the mean of a bag is the floor of the exact mean.    *)
(* An operation that can raise returns a record with a status field.       *)
(***************************************************************************)
EXTENDS Integers, Sequences, FiniteSets, TLC

VARIABLES args, ctor, self, dimResult, feats, fwd

vars == <<args, ctor, self, dimResult, feats, fwd>>

None == "None"

-----------------------------------------------------------------------------
(* Bounds of the model.                                                    *)

\* longest mlp_layer_dims
MaxLayers == 2
\* most items (values) of one feature in a batch
MaxItems == 2

\* feature ids that occur as keys
FeatureIds == {7, 8}
\* bucket count of a feature's table
BucketsOf(id) == IF id = 7 THEN 3 ELSE 2
EmbeddingDims == {1, 2}
BagModes == {"sum", "mean", "max"}
\* "sum" is not a pooling type the module supports
PoolingTypes == {"none", "mean", "max", "sum"}
LayerWidths == {2, 3}
BatchSizes == {1, 2}
\* weights a batch is given in place of its own
WeightSet == {1, 2}

-----------------------------------------------------------------------------
(* Python values: keys, dicts, truthiness.                                 *)

IntKey(id) == [form |-> "int", id |-> id]
StrKey(id) == [form |-> "str", id |-> id]

\* int(k): the integer a key denotes
int(k) == IntKey(k.id)
\* str(k): the decimal string of a key
str(k) == StrKey(k.id)

DictKeys(d) == {d[i].k : i \in DOMAIN d}
DictHas(d, k) == \E i \in DOMAIN d : d[i].k = k
\* d.get(k, default)
DictGet(d, k, default) ==
    IF DictHas(d, k) THEN d[CHOOSE i \in DOMAIN d : d[i].k = k].v ELSE default
\* d[k] = v: an existing key keeps its position
DictSet(d, k, v) ==
    IF DictHas(d, k)
    THEN [i \in DOMAIN d |-> IF d[i].k = k THEN [k |-> k, v |-> v] ELSE d[i]]
    ELSE Append(d, [k |-> k, v |-> v])

\* IntKeyed that keeps the keys in increasing order instead of in the order
\* of insertion
IntKeyed_Sorted(d) ==
    LET ids == {d[i].k.id : i \in DOMAIN d}
        last(id) == CHOOSE i \in DOMAIN d :
                       /\ d[i].k.id = id
                       /\ \A j \in DOMAIN d : d[j].k.id = id => j <= i
        rank(id) == Cardinality({x \in ids : x <= id})
    IN  [r \in 1..Cardinality(ids) |->
            LET id == CHOOSE x \in ids : rank(x) = r
            IN  [k |-> IntKey(id), v |-> d[last(id)].v]]

\* {int(k): v for k, v in d.items()}
RECURSIVE IntKeyed(_)
IntKeyed(d) ==
    IF d = <<>> THEN <<>>
    ELSE LET n == Len(d)
         IN  DictSet(IntKeyed(SubSeq(d, 1, n - 1)), int(d[n].k), d[n].v)

\* x or default, for an Optional value
OrElse(x, default) == IF x = None \/ x = "False" \/ x = "" THEN default ELSE x

-----------------------------------------------------------------------------
(* __init__                                                                *)

\* LegacySupplied testing the truth of ignore_weight instead of "is not None"
LegacySupplied_Truthy(ignore_weight, embedding_bag_mode) ==
    ignore_weight = "True" \/ embedding_bag_mode # None

\* the back-compatibility test of the constructor
LegacySupplied(ignore_weight, embedding_bag_mode) ==
    ignore_weight # None \/ embedding_bag_mode # None

\* LegacyModes applying the legacy mode whatever ignore_weight is
LegacyModes_AnyFlag(feature_buckets, ignore_weight, embedding_bag_mode) ==
    LET ebm == OrElse(embedding_bag_mode, "sum")
    IN  IntKeyed([i \in DOMAIN feature_buckets |->
                    [k |-> feature_buckets[i].k, v |-> ebm]])

\* the per-feature modes derived from the legacy fields
LegacyModes(feature_buckets, ignore_weight, embedding_bag_mode) ==
    LET iw  == OrElse(ignore_weight, "False")
        ebm == OrElse(embedding_bag_mode, "sum")
    IN  IntKeyed([i \in DOMAIN feature_buckets |->
                    [k |-> feature_buckets[i].k,
                     v |-> IF iw = "True" THEN ebm ELSE "sum"]])

\* nn.EmbeddingBag(num_embeddings, embedding_dim, mode=mode)
EmbeddingBag(num_embeddings, embedding_dim, mode) ==
    [num_embeddings |-> num_embeddings, embedding_dim |-> embedding_dim,
     mode |-> mode]

\* the mode an EmbeddingBag is built with: looked up with the key as it is
\* in the feature_buckets argument
TableMode(features_embedding_bag_mode, k) ==
    DictGet(features_embedding_bag_mode, k, "sum")

\* nn.ModuleDict({str(k): nn.EmbeddingBag(v, embedding_dim, mode=...) ...})
RECURSIVE FeatureEmbeddings(_, _, _)
FeatureEmbeddings(feature_buckets, embedding_dim, features_embedding_bag_mode) ==
    IF feature_buckets = <<>> THEN <<>>
    ELSE LET n == Len(feature_buckets)
             e == feature_buckets[n]
         IN  DictSet(FeatureEmbeddings(SubSeq(feature_buckets, 1, n - 1),
                                       embedding_dim,
                                       features_embedding_bag_mode),
                     str(e.k),
                     EmbeddingBag(e.v, embedding_dim,
                                  TableMode(features_embedding_bag_mode, e.k)))

\* input_dim of the first nn.Linear
InputDim(num_intput_features, embedding_dim, pooling_type) ==
    IF pooling_type = "none" THEN num_intput_features * embedding_dim
    ELSE embedding_dim

\* nn.Sequential of (nn.Linear(m, n), nn.ReLU()) over
\* zip([input_dim] + mlp_layer_dims, mlp_layer_dims)
Mlp(input_dim, mlp_layer_dims) ==
    [i \in DOMAIN mlp_layer_dims |->
        [in_features  |-> IF i = 1 THEN input_dim ELSE mlp_layer_dims[i - 1],
         out_features |-> mlp_layer_dims[i]]]

\* the fields of an instance that was not built
Unbuilt ==
    [embedding_dim |-> 0, weight_scale |-> 0,
     features_embedding_bag_mode |-> <<>>, pooling_type |-> None,
     mlp_layer_dims |-> <<>>, feature_buckets |-> <<>>,
     feature_embeddings |-> <<>>, num_intput_features |-> 0, mlp |-> <<>>]

__init__(a) ==
    LET explicit == IntKeyed(a.features_embedding_bag_mode)
        legacy   == LegacySupplied(a.ignore_weight, a.embedding_bag_mode)
    IN  IF legacy /\ Len(explicit) # 0
        THEN [status |-> "AssertionError", self |-> Unbuilt]
        ELSE LET febm == IF legacy
                         THEN LegacyModes(a.feature_buckets, a.ignore_weight,
                                          a.embedding_bag_mode)
                         ELSE explicit
                 num  == Len(a.feature_buckets)
             IN  [status |-> "ok",
                  self |->
                    [embedding_dim |-> a.embedding_dim,
                     weight_scale |-> a.weight_scale,
                     features_embedding_bag_mode |-> febm,
                     pooling_type |-> a.pooling_type,
                     mlp_layer_dims |-> a.mlp_layer_dims,
                     feature_buckets |-> IntKeyed(a.feature_buckets),
                     feature_embeddings |->
                        FeatureEmbeddings(a.feature_buckets, a.embedding_dim, febm),
                     num_intput_features |-> num,
                     mlp |-> Mlp(InputDim(num, a.embedding_dim, a.pooling_type),
                                 a.mlp_layer_dims)]]

-----------------------------------------------------------------------------
(* get_output_dim                                                          *)

\* get_output_dim returning the first projection width
get_output_dim_First(s) ==
    IF s.mlp_layer_dims # <<>>
    THEN [status |-> "ok", value |-> s.mlp_layer_dims[1]]
    ELSE IF s.pooling_type = "none"
    THEN [status |-> "ok", value |-> s.num_intput_features * s.embedding_dim]
    ELSE IF s.pooling_type \in {"mean", "max"}
    THEN [status |-> "ok", value |-> s.embedding_dim]
    ELSE [status |-> "RuntimeError", value |-> 0]

\* get_output_dim without the concatenated width of pooling type none
get_output_dim_NoConcat(s) ==
    IF s.mlp_layer_dims # <<>>
    THEN [status |-> "ok", value |-> s.mlp_layer_dims[Len(s.mlp_layer_dims)]]
    ELSE IF s.pooling_type \in {"none", "mean", "max"}
    THEN [status |-> "ok", value |-> s.embedding_dim]
    ELSE [status |-> "RuntimeError", value |-> 0]

get_output_dim(s) ==
    IF s.mlp_layer_dims # <<>>
    THEN [status |-> "ok", value |-> s.mlp_layer_dims[Len(s.mlp_layer_dims)]]
    ELSE IF s.pooling_type = "none"
    THEN [status |-> "ok", value |-> s.num_intput_features * s.embedding_dim]
    ELSE IF s.pooling_type = "mean"
    THEN [status |-> "ok", value |-> s.embedding_dim]
    ELSE IF s.pooling_type = "max"
    THEN [status |-> "ok", value |-> s.embedding_dim]
    ELSE [status |-> "RuntimeError", value |-> 0]

-----------------------------------------------------------------------------
(* The tensor operations forward calls.                                    *)

RECURSIVE SeqSum(_)
SeqSum(q) == IF q = <<>> THEN 0 ELSE q[1] + SeqSum(Tail(q))

RECURSIVE SeqMax(_)
SeqMax(q) ==
    IF Len(q) = 1 THEN q[1]
    ELSE LET m == SeqMax(Tail(q)) IN IF q[1] > m THEN q[1] ELSE m

\* entry (row, d) of the weight of the EmbeddingBag of feature id: a fixed
\* parameter value
Weight(id, row, d) == ((id * 5 + row * 7 + d * 3) % 11) - 5

\* torch.remainder(feat, buckets), element-wise
Remainder(feat, buckets) == [j \in DOMAIN feat |-> feat[j] % buckets]

\* feat_emb(input, offsets=offsets, per_sample_weights=...) of the
\* EmbeddingBag `module` of feature id: one row per bag; bag b holds the
\* items from offsets[b] up to the next offset
EmbeddingBagForward(module, id, input, offsets, per_sample_weights) ==
    IF per_sample_weights.given /\ module.mode # "sum"
    THEN [status |-> "NotImplementedError", val |-> <<>>]
    ELSE
    LET lo(b) == offsets[b] + 1
        hi(b) == IF b < Len(offsets) THEN offsets[b + 1] ELSE Len(input)
        terms(b, d) ==
            [j \in 1..(hi(b) - lo(b) + 1) |->
                Weight(id, input[lo(b) + j - 1], d)
                * (IF per_sample_weights.given
                   THEN per_sample_weights.w[lo(b) + j - 1] ELSE 1)]
        reduce(q) ==
            IF Len(q) = 0 THEN 0
            ELSE IF module.mode = "sum" THEN SeqSum(q)
            ELSE IF module.mode = "mean" THEN SeqSum(q) \div Len(q)
            ELSE SeqMax(q)
    IN  [status |-> "ok",
         val |-> [b \in DOMAIN offsets |->
                    [d \in 1..module.embedding_dim |-> reduce(terms(b, d))]]]

\* tensor * weight_scale
Scale(t, weight_scale) ==
    [b \in DOMAIN t |-> [d \in DOMAIN t[b] |-> t[b][d] * weight_scale]]

RECURSIVE Flatten(_)
Flatten(q) == IF q = <<>> THEN <<>> ELSE q[1] \o Flatten(Tail(q))

\* whether the tensors of a list can be concatenated or stacked
SameRows(embeddings) ==
    /\ Len(embeddings) > 0
    /\ \A i \in DOMAIN embeddings : Len(embeddings[i]) = Len(embeddings[1])

\* torch.cat(embeddings, dim=1)
PoolNone(embeddings) ==
    IF ~SameRows(embeddings) THEN [status |-> "RuntimeError", val |-> <<>>]
    ELSE [status |-> "ok",
          val |-> [b \in DOMAIN embeddings[1] |->
                     Flatten([i \in DOMAIN embeddings |-> embeddings[i][b]])]]

\* PoolMean dividing by the number of features
PoolMean_Averaged(embeddings) ==
    IF ~SameRows(embeddings) THEN [status |-> "RuntimeError", val |-> <<>>]
    ELSE [status |-> "ok",
          val |-> [b \in DOMAIN embeddings[1] |->
                     [d \in DOMAIN embeddings[1][b] |->
                        SeqSum([i \in DOMAIN embeddings |-> embeddings[i][b][d]])
                          \div Len(embeddings)]]]

\* torch.sum(torch.stack(embeddings, dim=1), dim=1)
PoolMean(embeddings) ==
    IF ~SameRows(embeddings) THEN [status |-> "RuntimeError", val |-> <<>>]
    ELSE [status |-> "ok",
          val |-> [b \in DOMAIN embeddings[1] |->
                     [d \in DOMAIN embeddings[1][b] |->
                        SeqSum([i \in DOMAIN embeddings |-> embeddings[i][b][d]])]]]

\* torch.max(torch.stack(embeddings, dim=1), dim=1)
PoolMax(embeddings) ==
    IF ~SameRows(embeddings) THEN [status |-> "RuntimeError", val |-> <<>>]
    ELSE [status |-> "ok",
          val |-> [b \in DOMAIN embeddings[1] |->
                     [d \in DOMAIN embeddings[1][b] |->
                        SeqMax([i \in DOMAIN embeddings |-> embeddings[i][b][d]])]]]

\* the pooling branch of forward
Pool(pooling_type, embeddings) ==
    IF pooling_type = "none" THEN PoolNone(embeddings)
    ELSE IF pooling_type = "mean" THEN PoolMean(embeddings)
    ELSE IF pooling_type = "max" THEN PoolMax(embeddings)
    ELSE [status |-> "RuntimeError", val |-> <<>>]

\* fixed parameter values of the i-th nn.Linear
LinearWeight(stage, i, j) == ((stage + 2 * i + j) % 3) - 1
LinearBias(stage, j) == ((stage + j) % 2)

\* nn.Sequential(nn.Linear(m, n), nn.ReLU()) applied to x
LinearReLU(stage, layer, x) ==
    IF \E b \in DOMAIN x : Len(x[b]) # layer.in_features
    THEN [status |-> "RuntimeError", val |-> <<>>]
    ELSE [status |-> "ok",
          val |-> [b \in DOMAIN x |->
                     [j \in 1..layer.out_features |->
                        LET y == SeqSum([i \in 1..layer.in_features |->
                                           x[b][i] * LinearWeight(stage, i, j)])
                                 + LinearBias(stage, j)
                        IN  IF y > 0 THEN y ELSE 0]]]

\* self.mlp(x): the first n stages
RECURSIVE MlpForward(_, _, _)
MlpForward(mlp, x, n) ==
    IF n = 0 THEN [status |-> "ok", val |-> x]
    ELSE LET prev == MlpForward(mlp, x, n - 1)
         IN  IF prev.status # "ok" THEN prev
             ELSE LinearReLU(n, mlp[n], prev.val)

-----------------------------------------------------------------------------
(* forward                                                                 *)

EmptyItem == [values |-> <<>>, offsets |-> <<>>, weights |-> <<>>]

\* GetItem that skips a missing key: feats.get(k, <no items>)
GetItem_Default(f, k) == [status |-> "ok", v |-> DictGet(f, k, EmptyItem)]

\* feats[k]
GetItem(f, k) ==
    IF DictHas(f, k) THEN [status |-> "ok", v |-> DictGet(f, k, EmptyItem)]
    ELSE [status |-> "KeyError", v |-> EmptyItem]

\* the mode forward looks up for feature k
ForwardMode(s, k) == DictGet(s.features_embedding_bag_mode, k, "sum")

\* PerSampleWeights passing the weights whatever the mode
PerSampleWeights_Always(s, k, weights) == [given |-> TRUE, w |-> weights]

\* the per_sample_weights argument forward passes for feature k
PerSampleWeights(s, k, weights) ==
    IF ForwardMode(s, k) = "sum" THEN [given |-> TRUE, w |-> weights]
    ELSE [given |-> FALSE, w |-> <<>>]

Raised(status) == [status |-> status, embeddings |-> <<>>, passed |-> <<>>]

\* one iteration of the loop of forward, after the lookup feats[k]: the
\* remapped values go through the EmbeddingBag of str(k) and are scaled
Embed(s, k, buckets, item) ==
    IF ~DictHas(s.feature_embeddings, str(k))
    THEN [status |-> "KeyError", val |-> <<>>, given |-> FALSE]
    ELSE
    LET feats_remap == Remainder(item.values, buckets)
        feat_emb    == DictGet(s.feature_embeddings, str(k), 0)
        psw         == PerSampleWeights(s, k, item.weights)
        r           == EmbeddingBagForward(feat_emb, k.id, feats_remap,
                                           item.offsets, psw)
    IN  IF r.status # "ok"
        THEN [status |-> r.status, val |-> <<>>, given |-> psw.given]
        ELSE [status |-> "ok", val |-> Scale(r.val, s.weight_scale),
              given |-> psw.given]

\* the loop of forward over the first n items of self.feature_buckets;
\* passed[i] records whether the i-th call of an EmbeddingBag was given
\* per_sample_weights
RECURSIVE ForwardLoop(_, _, _)
ForwardLoop(s, f, n) ==
    IF n = 0 THEN [status |-> "ok", embeddings |-> <<>>, passed |-> <<>>]
    ELSE
    LET prev    == ForwardLoop(s, f, n - 1)
        k       == s.feature_buckets[n].k
        buckets == s.feature_buckets[n].v
        item    == GetItem(f, k)
    IN  IF prev.status # "ok" THEN prev
        ELSE IF item.status # "ok" THEN Raised(item.status)
        ELSE LET e == Embed(s, k, buckets, item.v)
             IN  IF e.status # "ok" THEN Raised(e.status)
                 ELSE [status |-> "ok",
                       embeddings |-> Append(prev.embeddings, e.val),
                       passed |-> Append(prev.passed, e.given)]

NoResult ==
    [status |-> "none", embeddings |-> <<>>, passed |-> <<>>,
     reduced_embeds |-> <<>>, out |-> <<>>]

\* forward(feats): status "ok" and the returned tensor out, or the error
\* raised; embeddings and reduced_embeds are the locals of the call
forward(s, f) ==
    LET loop == ForwardLoop(s, f, Len(s.feature_buckets))
    IN  IF loop.status # "ok" THEN [NoResult EXCEPT !.status = loop.status]
        ELSE
        LET pooled == Pool(s.pooling_type, loop.embeddings)
        IN  IF pooled.status # "ok"
            THEN [NoResult EXCEPT !.status = pooled.status]
            ELSE
            LET y == MlpForward(s.mlp, pooled.val, Len(s.mlp))
            IN  IF y.status # "ok" THEN [NoResult EXCEPT !.status = y.status]
                ELSE [status |-> "ok", embeddings |-> loop.embeddings,
                      passed |-> loop.passed,
                      reduced_embeds |-> pooled.val, out |-> y.val]

-----------------------------------------------------------------------------
(* The arguments the constructor and forward are called with.              *)

Keys == {IntKey(id) : id \in FeatureIds} \cup {StrKey(id) : id \in FeatureIds}

\* key orders of a feature_buckets dict: every feature id at most once
KeySeqs ==
    {ks \in UNION {[1..n -> Keys] : n \in 0..Cardinality(FeatureIds)} :
        \A i, j \in DOMAIN ks : i # j => ks[i].id # ks[j].id}

FeatureBucketDicts ==
    {[i \in DOMAIN ks |-> [k |-> ks[i], v |-> BucketsOf(ks[i].id)]] :
        ks \in KeySeqs}

\* the dicts whose keys all have one form
UniformBucketDicts ==
    {d \in FeatureBucketDicts : \A i, j \in DOMAIN d : d[i].k.form = d[j].k.form}

\* the ids of a set in increasing order
RECURSIVE Sorted(_)
Sorted(S) ==
    IF S = {} THEN <<>>
    ELSE LET m == CHOOSE x \in S : \A y \in S : x <= y
         IN  <<m>> \o Sorted(S \ {m})

\* features_embedding_bag_mode dicts over the feature ids S with modes M,
\* keys in the given form
ModeDicts(S, M, form) ==
    UNION {{[i \in DOMAIN Sorted(T) |->
                [k |-> [form |-> form, id |-> Sorted(T)[i]],
                 v |-> m[Sorted(T)[i]]]] : m \in [T -> M]} : T \in SUBSET S}

LayerDims == UNION {[1..n -> LayerWidths] : n \in 0..MaxLayers}

Args(dim, scale, modes, ebm, iw, pooling, layers, buckets) ==
    [embedding_dim |-> dim, weight_scale |-> scale,
     features_embedding_bag_mode |-> modes, embedding_bag_mode |-> ebm,
     ignore_weight |-> iw, pooling_type |-> pooling,
     mlp_layer_dims |-> layers, feature_buckets |-> buckets]

\* constructor calls that vary the mode settings
ResolveArgs ==
    {Args(2, 1, modes, ebm, iw, "none", <<>>, buckets) :
        modes \in ModeDicts(FeatureIds, BagModes, "int")
                  \cup ModeDicts(FeatureIds, BagModes, "str"),
        ebm \in BagModes \cup {None},
        iw \in {None, "True", "False"},
        buckets \in FeatureBucketDicts}

\* constructor calls that vary the widths
DimArgs ==
    {Args(dim, 1, <<>>, None, None, pooling, layers, buckets) :
        dim \in EmbeddingDims, pooling \in PoolingTypes,
        layers \in LayerDims, buckets \in FeatureBucketDicts}

\* the items of a feature in a batch of B examples: no value or MaxItems
\* values, the offsets of the bags, one weight per value
ItemValue(j) == IF j % 2 = 1 THEN 3 * j ELSE 0 - j
ItemWeight(j) == j + 1
Offsets(B, n) ==
    {os \in [1..B -> 0..n] :
        os[1] = 0 /\ \A b \in 1..(B - 1) : os[b] <= os[b + 1]}
Items(B) ==
    UNION {{[values |-> [j \in 1..n |-> ItemValue(j)], offsets |-> os,
             weights |-> [j \in 1..n |-> ItemWeight(j)]] :
               os \in Offsets(B, n)} : n \in {0, MaxItems}}

\* input batches: integer keys in any order, every feature with B bags
IdSeqs ==
    {ks \in UNION {[1..n -> FeatureIds] : n \in 0..Cardinality(FeatureIds)} :
        \A i, j \in DOMAIN ks : i # j => ks[i] # ks[j]}
Batches ==
    UNION {UNION {{[i \in DOMAIN ks |-> [k |-> IntKey(ks[i]), v |-> it[i]]] :
                      it \in [DOMAIN ks -> Items(B)]} : ks \in IdSeqs} :
           B \in BatchSizes}

\* one mlp_layer_dims of each length forward is run with
ForwardLayerDims == {<<>>, [i \in 1..MaxLayers |-> MaxLayers + 2 - i]}

\* constructor calls forward is run after: explicit modes for the features
\* of feature_buckets, or the legacy fields
ForwardArgs ==
    UNION {{Args(2, 2, modes, None, None, pooling, layers, buckets) :
              modes \in ModeDicts({buckets[i].k.id : i \in DOMAIN buckets},
                                  {"mean", "max"}, "int"),
              pooling \in PoolingTypes, layers \in ForwardLayerDims}
           \cup
           {Args(2, 2, <<>>, "max", "True", pooling, layers, buckets) :
              pooling \in PoolingTypes, layers \in ForwardLayerDims} :
           buckets \in UniformBucketDicts}

-----------------------------------------------------------------------------
(* The state machine: a caller constructs an instance, then queries the    *)
(* output width and calls forward, in any order and any number of times.   *)
(* dimResult and fwd hold the result of the last call of each.             *)

NoDim == [status |-> "none", value |-> 0]

InitWith(A, F) ==
    /\ args \in A
    /\ feats \in F
    /\ ctor = "pending"
    /\ self = Unbuilt
    /\ dimResult = NoDim
    /\ fwd = NoResult

Construct ==
    /\ ctor = "pending"
    /\ LET r == __init__(args)
       IN  ctor' = r.status /\ self' = r.self
    /\ UNCHANGED <<args, dimResult, feats, fwd>>

GetOutputDim ==
    /\ ctor = "ok"
    /\ dimResult' = get_output_dim(self)
    /\ UNCHANGED <<args, ctor, self, feats, fwd>>

Forward ==
    /\ ctor = "ok"
    /\ fwd' = forward(self, feats)
    /\ UNCHANGED <<args, ctor, self, dimResult, feats>>

\* construction and the output-dimension query
Init == InitWith(ResolveArgs \cup DimArgs, {<<>>})
Next == Construct \/ GetOutputDim
Spec == Init /\ [][Next]_vars

\* construction, the query and forward on a batch
InitForward == InitWith(ForwardArgs, Batches)
NextForward == Construct \/ GetOutputDim \/ Forward
SpecForward == InitForward /\ [][NextForward]_vars

-----------------------------------------------------------------------------
(* Properties of construction and of the output-dimension query.           *)

SupportedPooling == {"none", "mean", "max"}

\* the feature ids configured by the feature_buckets argument
ConfiguredIds == {args.feature_buckets[i].k.id : i \in DOMAIN args.feature_buckets}

\* a legacy field was supplied to the constructor
LegacyGiven == args.ignore_weight # None \/ args.embedding_bag_mode # None

\* the entry of feature id in the explicit mapping argument, or sum
ExplicitMode(id) ==
    LET m == args.features_embedding_bag_mode
    IN  IF \E i \in DOMAIN m : m[i].k.id = id
        THEN m[CHOOSE i \in DOMAIN m : m[i].k.id = id].v
        ELSE "sum"

\* the resolved mode of feature id
ResolvedMode(id) == DictGet(self.features_embedding_bag_mode, IntKey(id), "sum")

(* C1: construction raises the assertion error exactly when a legacy field
   (embedding_bag_mode or ignore_weight, ignore_weight = False included) is
   supplied together with a non-empty explicit mapping; with both legacy
   fields None, or with an empty mapping, it does not. *)
C1_ConflictRaises ==
    ctor # "pending" =>
        (ctor = "AssertionError"
            <=> (LegacyGiven /\ Len(args.features_embedding_bag_mode) > 0))

C1_Witness ==
    /\ ctor = "AssertionError"
    /\ args.ignore_weight = "False"
    /\ args.embedding_bag_mode = None
    /\ Len(args.features_embedding_bag_mode) > 0

\* the keys of the resolved mapping are exactly the configured feature ids
ResolvedKeysAreConfigured ==
    /\ DictKeys(self.features_embedding_bag_mode)
         = {IntKey(id) : id \in ConfiguredIds}
    /\ Len(self.features_embedding_bag_mode) = Cardinality(ConfiguredIds)

\* without legacy fields a feature's mode is its explicit entry, or sum
ExplicitPathResolved ==
    (ctor = "ok" /\ ~LegacyGiven) =>
        \A id \in ConfiguredIds : ResolvedMode(id) = ExplicitMode(id)

(* C2, as stated: on the legacy path the resolved mapping has exactly the
   configured feature ids as keys, each mapped to the legacy global mode
   (the embedding_bag_mode argument) if ignore_weight is true and to sum
   otherwise; without legacy fields a feature's mode is its explicit entry,
   or sum. *)
C2_AsStated ==
    /\ (ctor = "ok" /\ LegacyGiven) =>
         /\ ResolvedKeysAreConfigured
         /\ \A id \in ConfiguredIds :
               ResolvedMode(id) = IF args.ignore_weight = "True"
                                  THEN args.embedding_bag_mode ELSE "sum"
    /\ ExplicitPathResolved

(* C2, amended: as C2, but when ignore_weight is true and the legacy global
   mode is left unset (None), every feature maps to sum. *)
C2_LegacyResolved ==
    /\ (ctor = "ok" /\ LegacyGiven) =>
         /\ ResolvedKeysAreConfigured
         /\ \A id \in ConfiguredIds :
               ResolvedMode(id) =
                  IF args.ignore_weight = "True"
                  THEN (IF args.embedding_bag_mode = None THEN "sum"
                        ELSE args.embedding_bag_mode)
                  ELSE "sum"
    /\ ExplicitPathResolved

C2_Witness ==
    /\ ctor = "ok"
    /\ args.ignore_weight = "True"
    /\ args.embedding_bag_mode = "max"
    /\ Cardinality(ConfiguredIds) = 2
    /\ \A id \in ConfiguredIds : ResolvedMode(id) = "max"

(* C3: on an instance whose pooling type is none of none, mean, max, the
   output-dimension query raises, whatever mlp_layer_dims is, and forward
   raises too. *)
C3_UnsupportedPoolingRaises ==
    (ctor = "ok" /\ self.pooling_type \notin SupportedPooling) =>
        /\ dimResult.status # "ok"
        /\ fwd.status # "ok"

\* the width of the combined vector, by the pooling type
CombinerWidth ==
    IF args.pooling_type = "none"
    THEN Cardinality(ConfiguredIds) * args.embedding_dim
    ELSE args.embedding_dim

(* C4: get_output_dim, with no forward call run, returns the last width of
   mlp_layer_dims when there is one, and otherwise features x embedding_dim
   for pooling type none and embedding_dim for mean and max; the latter
   rule gives the input width of the first projection stage. *)
C4_OutputDim ==
    /\ (ctor = "ok" /\ dimResult.status # "none" /\ fwd.status = "none") =>
         /\ args.mlp_layer_dims # <<>> =>
               dimResult = [status |-> "ok",
                            value |-> args.mlp_layer_dims[Len(args.mlp_layer_dims)]]
         /\ (args.mlp_layer_dims = <<>> /\ args.pooling_type \in SupportedPooling) =>
               dimResult = [status |-> "ok", value |-> CombinerWidth]
    /\ (ctor = "ok" /\ args.mlp_layer_dims # <<>>
          /\ args.pooling_type \in SupportedPooling) =>
         self.mlp[1].in_features = CombinerWidth

C4_Witness ==
    /\ dimResult.status = "ok"
    /\ fwd.status = "none"
    /\ Len(args.mlp_layer_dims) = 2
    /\ args.mlp_layer_dims[1] # args.mlp_layer_dims[2]
    /\ args.pooling_type = "none"
    /\ Cardinality(ConfiguredIds) = 2
    /\ self.mlp[1].in_features = 2 * args.embedding_dim

(* C10: for every configured feature, the mode its EmbeddingBag was built
   with is the mode forward looks up for it, whatever the form of the keys
   of feature_buckets. *)
C10_TableModeIsForwardMode ==
    ctor = "ok" =>
        \A i \in DOMAIN self.feature_buckets :
            LET k == self.feature_buckets[i].k
            IN  /\ DictHas(self.feature_embeddings, str(k))
                /\ DictGet(self.feature_embeddings, str(k), Unbuilt).mode
                     = ForwardMode(self, k)

-----------------------------------------------------------------------------
(* Properties of forward.                                                  *)

\* the feature ids of the input batch
BatchIds == {feats[i].k.id : i \in DOMAIN feats}

(* C5: a forward call on a batch that lacks a configured feature id raises
   (the KeyError of feats[k]) and returns no output, wherever the missing
   feature stands in the key order and whatever else the batch holds. *)
C5_MissingFeatureRaises ==
    (fwd.status # "none" /\ ~(ConfiguredIds \subseteq BatchIds)) =>
        /\ fwd.status = "KeyError"
        /\ fwd.out = <<>>
        /\ fwd.reduced_embeds = <<>>

C5_Witness ==
    /\ fwd.status = "KeyError"
    /\ Len(args.feature_buckets) = 2
    /\ args.feature_buckets[1].k.id \in BatchIds
    /\ args.feature_buckets[2].k.id \notin BatchIds

\* the batch with every weight of its i-th feature replaced by w
Reweighted(f, i, w) ==
    [f EXCEPT ![i].v.weights = [j \in DOMAIN f[i].v.weights |-> w]]

(* C6: forward gives the same result when the weights of a feature whose
   resolved mode is mean or max are changed, and an EmbeddingBag is given
   per_sample_weights exactly for the features whose resolved mode is
   sum. *)
C6_WeightsIgnored ==
    fwd.status # "none" =>
        /\ \A i \in DOMAIN feats :
              (/\ feats[i].k.id \in ConfiguredIds
               /\ ResolvedMode(feats[i].k.id) \in {"mean", "max"}) =>
                 \A w \in WeightSet :
                    forward(self, Reweighted(feats, i, w)) = fwd
        /\ fwd.status = "ok" =>
              \A i \in DOMAIN fwd.passed :
                 fwd.passed[i]
                   <=> (ResolvedMode(args.feature_buckets[i].k.id) = "sum")

C6_Witness ==
    /\ fwd.status = "ok"
    /\ \E i, j \in DOMAIN fwd.passed :
          /\ ~fwd.passed[i]
          /\ ResolvedMode(args.feature_buckets[i].k.id) = "mean"
          /\ fwd.passed[j]
          /\ \A n \in DOMAIN feats : Len(feats[n].v.weights) > 0

\* the vector of the i-th configured feature for the batch: its item of the
\* batch through its EmbeddingBag, scaled
FeatureVector(i) ==
    LET e == args.feature_buckets[i]
    IN  Embed(self, int(e.k), e.v, DictGet(feats, int(e.k), EmptyItem)).val

(* C7: with pooling type none the combined vector of forward is, for every
   example, the concatenation of the per-feature vectors in the key order
   of feature_buckets, embedding_dim wide each, whatever the key order of
   the batch. *)
C7_ConcatInKeyOrder ==
    (fwd.status = "ok" /\ args.pooling_type = "none") =>
        \A b \in DOMAIN fwd.reduced_embeds :
            /\ Len(fwd.reduced_embeds[b])
                 = Len(args.feature_buckets) * args.embedding_dim
            /\ \A i \in DOMAIN args.feature_buckets :
                  \A d \in 1..args.embedding_dim :
                     fwd.reduced_embeds[b][(i - 1) * args.embedding_dim + d]
                       = FeatureVector(i)[b][d]

C7_Witness ==
    /\ fwd.status = "ok"
    /\ args.pooling_type = "none"
    /\ Len(args.feature_buckets) = 2
    /\ args.feature_buckets[1].k.id # feats[1].k.id
    /\ FeatureVector(1) # FeatureVector(2)

(* C8: with pooling type mean the combined vector is the element-wise sum
   of the per-feature vectors, not divided by their number; with max it is
   their element-wise maximum. *)
C8_MeanIsSum ==
    fwd.status = "ok" =>
        \A b \in DOMAIN fwd.reduced_embeds :
            \A d \in 1..args.embedding_dim :
                LET col == [i \in DOMAIN fwd.embeddings |-> fwd.embeddings[i][b][d]]
                    r   == fwd.reduced_embeds[b][d]
                IN  /\ args.pooling_type = "mean" => r = SeqSum(col)
                    /\ args.pooling_type = "max" =>
                          /\ \E i \in DOMAIN col : r = col[i]
                          /\ \A i \in DOMAIN col : r >= col[i]

C8_Witness ==
    /\ fwd.status = "ok"
    /\ args.pooling_type = "mean"
    /\ Len(fwd.embeddings) = 2
    /\ \E b \in DOMAIN fwd.reduced_embeds :
          \E d \in 1..args.embedding_dim :
             /\ fwd.embeddings[1][b][d] # 0
             /\ fwd.embeddings[2][b][d] # 0
             /\ fwd.reduced_embeds[b][d]
                  = fwd.embeddings[1][b][d] + fwd.embeddings[2][b][d]

(* C9: an output forward returns has one row per example of the batch, and
   every row is as wide as get_output_dim says for the instance, whether it
   is asked before or after the forward call. *)
C9_WidthIsOutputDim ==
    fwd.status = "ok" =>
        /\ \A i \in DOMAIN feats : Len(fwd.out) = Len(feats[i].v.offsets)
        /\ get_output_dim(self).status = "ok"
        /\ \A b \in DOMAIN fwd.out : Len(fwd.out[b]) = get_output_dim(self).value
        /\ dimResult.status # "none" =>
              /\ dimResult.status = "ok"
              /\ \A b \in DOMAIN fwd.out : Len(fwd.out[b]) = dimResult.value

C9_Witness ==
    /\ fwd.status = "ok"
    /\ dimResult.status = "ok"
    /\ Len(fwd.out) = 2
    /\ args.pooling_type = "none"
    /\ Len(args.feature_buckets) = 2
    /\ args.mlp_layer_dims = <<>>
    /\ Len(fwd.out[1]) = 2 * args.embedding_dim

====
